---- MODULE Spec2Model ----
(***************************************************************************)
(* The interaction state machine of rust-chess (src/src/main.rs): struct   *)
(* App (board, cursor_pos, selected_pos, message), App::on_key,            *)
(* App::make_ai_move, App::get_game_status, the event loop run_app and the *)
(* terminal setup and teardown of main around it.                          *)
(*                                                                         *)
(* The rules engine is the external crate pleco.  Its Board is modelled by *)
(* what main.rs asks of it: piece_at_sq, turn, generate_moves, apply_move, *)
(* in_check, checkmate, stalemate.  The model's engine plays chess without *)
(* castling and en passant (none of the modelled positions offers either). *)
(***************************************************************************)
EXTENDS Integers, Sequences, FiniteSets, TLC

\* ------------------------------------------------------------------------
\* Bounds
\* ------------------------------------------------------------------------

\* Key events passed to on_key in one run of the event loop.
MaxKeys == 6

\* ------------------------------------------------------------------------
\* pleco: squares, players, pieces
\* ------------------------------------------------------------------------

\* SQ(u8): the 64 squares, a1 = 0, b1 = 1, ..., h8 = 63.
Squares == 0 .. 63

\* SQ::file_idx_of_sq: the low three bits.
file_idx_of_sq(sq) == sq % 8

\* SQ::rank_idx_of_sq: the index shifted right by three bits.
rank_idx_of_sq(sq) == sq \div 8

\* Square::make(file, rank).
MakeSq(file, rank) == rank * 8 + file

Players == {"White", "Black"}

OtherPlayer(p) == IF p = "White" THEN "Black" ELSE "White"

WhitePieces ==
  {"WhitePawn", "WhiteKnight", "WhiteBishop", "WhiteRook", "WhiteQueen", "WhiteKing"}

BlackPieces ==
  {"BlackPawn", "BlackKnight", "BlackBishop", "BlackRook", "BlackQueen", "BlackKing"}

Pieces == WhitePieces \cup BlackPieces \cup {"None"}

\* Piece::player_lossy: the colour bit of the piece; Piece::None has it clear.
player_lossy(piece) == IF piece \in BlackPieces THEN "Black" ELSE "White"

\* Piece::type_of.
type_of(piece) ==
  CASE piece \in {"WhitePawn", "BlackPawn"} -> "P"
    [] piece \in {"WhiteKnight", "BlackKnight"} -> "N"
    [] piece \in {"WhiteBishop", "BlackBishop"} -> "B"
    [] piece \in {"WhiteRook", "BlackRook"} -> "R"
    [] piece \in {"WhiteQueen", "BlackQueen"} -> "Q"
    [] piece \in {"WhiteKing", "BlackKing"} -> "K"
    [] OTHER -> "-"

\* Piece::make_lossy(player, type).
MakePiece(player, t) ==
  CASE t = "P" -> IF player = "White" THEN "WhitePawn" ELSE "BlackPawn"
    [] t = "N" -> IF player = "White" THEN "WhiteKnight" ELSE "BlackKnight"
    [] t = "B" -> IF player = "White" THEN "WhiteBishop" ELSE "BlackBishop"
    [] t = "R" -> IF player = "White" THEN "WhiteRook" ELSE "BlackRook"
    [] t = "Q" -> IF player = "White" THEN "WhiteQueen" ELSE "BlackQueen"
    [] OTHER -> IF player = "White" THEN "WhiteKing" ELSE "BlackKing"

\* ------------------------------------------------------------------------
\* pleco: Board.  A board is [pieces : Squares -> Pieces, turn : Players].
\* ------------------------------------------------------------------------

\* Board::piece_at_sq.
piece_at_sq(b, sq) == b.pieces[sq]

\* Board::turn.
turn(b) == b.turn

Abs(x) == IF x < 0 THEN -x ELSE x

Sign(x) == IF x < 0 THEN -1 ELSE IF x > 0 THEN 1 ELSE 0

Max(x, y) == IF x < y THEN y ELSE x

FileDist(s, t) == Abs(file_idx_of_sq(t) - file_idx_of_sq(s))

RankDist(s, t) == Abs(rank_idx_of_sq(t) - rank_idx_of_sq(s))

\* The squares strictly between s and t on their common line.
Between(s, t) ==
  LET df == Sign(file_idx_of_sq(t) - file_idx_of_sq(s))
      dr == Sign(rank_idx_of_sq(t) - rank_idx_of_sq(s))
      n  == Max(FileDist(s, t), RankDist(s, t))
  IN  { MakeSq(file_idx_of_sq(s) + i * df, rank_idx_of_sq(s) + i * dr) : i \in 1 .. (n - 1) }

OnLine(s, t) == s # t /\ (FileDist(s, t) = 0 \/ RankDist(s, t) = 0)

OnDiagonal(s, t) == s # t /\ FileDist(s, t) = RankDist(s, t)

ClearPath(pieces, s, t) == \A u \in Between(s, t) : pieces[u] = "None"

\* Rank direction in which a player's pawns advance.
PawnDir(player) == IF player = "White" THEN 1 ELSE -1

\* Whether the piece on s attacks square t (attack tables of the engine).
Attacks(pieces, s, t) ==
  LET p == pieces[s]
      k == type_of(p)
  IN  CASE k = "P" -> /\ FileDist(s, t) = 1
                      /\ rank_idx_of_sq(t) - rank_idx_of_sq(s) = PawnDir(player_lossy(p))
        [] k = "N" -> {FileDist(s, t), RankDist(s, t)} = {1, 2}
        [] k = "K" -> s # t /\ FileDist(s, t) <= 1 /\ RankDist(s, t) <= 1
        [] k = "B" -> OnDiagonal(s, t) /\ ClearPath(pieces, s, t)
        [] k = "R" -> OnLine(s, t) /\ ClearPath(pieces, s, t)
        [] k = "Q" -> (OnLine(s, t) \/ OnDiagonal(s, t)) /\ ClearPath(pieces, s, t)
        [] OTHER -> FALSE

\* Whether a piece of player `by` attacks square t.
Attacked(pieces, t, by) ==
  \E s \in Squares :
    /\ pieces[s] # "None"
    /\ player_lossy(pieces[s]) = by
    /\ Attacks(pieces, s, t)

\* Board::king_sq.
king_sq(pieces, player) == CHOOSE s \in Squares : pieces[s] = MakePiece(player, "K")

\* Board::in_check: the king of the side to move is attacked.
in_check(b) == Attacked(b.pieces, king_sq(b.pieces, b.turn), OtherPlayer(b.turn))

\* BitMove: source, destination and the promotion piece ("" when none).
NoPromo == ""

PromoOrder == <<"q", "n", "r", "b">>

PromoType(c) ==
  CASE c = "q" -> "Q" [] c = "n" -> "N" [] c = "r" -> "R" [] OTHER -> "B"

PromoIdx(c) ==
  CASE c = "" -> 0 [] c = "q" -> 1 [] c = "n" -> 2 [] c = "r" -> 3 [] OTHER -> 4

Move(s, t, c) == [src |-> s, dest |-> t, promo |-> c]

\* Board::apply_move: the piece leaves src, lands (promoted if the move says
\* so) on dest, and the turn passes to the other player.
apply_move(b, m) ==
  LET p == b.pieces[m.src]
      q == IF m.promo = NoPromo THEN p ELSE MakePiece(player_lossy(p), PromoType(m.promo))
  IN  [pieces |-> [b.pieces EXCEPT ![m.src] = "None", ![m.dest] = q],
       turn   |-> OtherPlayer(b.turn)]

LastRank(player) == IF player = "White" THEN 7 ELSE 0

PawnStartRank(player) == IF player = "White" THEN 1 ELSE 6

\* Destinations of the pawn on s, before the king-safety test.
PawnDests(b, s) ==
  LET me == b.turn
      d  == PawnDir(me)
      r  == rank_idx_of_sq(s)
      f  == file_idx_of_sq(s)
      one == MakeSq(f, r + d)
      two == MakeSq(f, r + 2 * d)
  IN  { t \in Squares :
          \/ t = one /\ b.pieces[one] = "None"
          \/ /\ r = PawnStartRank(me)
             /\ t = two
             /\ b.pieces[one] = "None"
             /\ b.pieces[two] = "None"
          \/ /\ Attacks(b.pieces, s, t)
             /\ b.pieces[t] # "None"
             /\ player_lossy(b.pieces[t]) # me }

\* Destinations of the piece on s, before the king-safety test.
PseudoDests(b, s) ==
  IF type_of(b.pieces[s]) = "P"
  THEN PawnDests(b, s)
  ELSE { t \in Squares :
           /\ Attacks(b.pieces, s, t)
           /\ (b.pieces[t] = "None" \/ player_lossy(b.pieces[t]) # b.turn) }

\* The moves of the piece on s to t: four promotions on the last rank.
MovesTo(b, s, t) ==
  IF type_of(b.pieces[s]) = "P" /\ rank_idx_of_sq(t) = LastRank(b.turn)
  THEN { Move(s, t, PromoOrder[i]) : i \in 1 .. 4 }
  ELSE { Move(s, t, NoPromo) }

\* A move is legal when it does not leave the mover's king attacked.
LeavesKingSafe(b, m) ==
  LET nb == apply_move(b, m)
  IN  ~Attacked(nb.pieces, king_sq(nb.pieces, b.turn), nb.turn)

\* The legal moves of the piece on s.
LegalMovesFrom(b, s) ==
  UNION { { m \in MovesTo(b, s, t) : LeavesKingSafe(b, m) } : t \in PseudoDests(b, s) }

\* Position of a move among those of one piece in the engine's enumeration:
\* by destination, then promotion piece (queen first).
MoveKey(m) == m.dest * 5 + PromoIdx(m.promo)

RECURSIVE InOrder(_)
InOrder(S) ==
  IF S = {} THEN <<>>
  ELSE LET m == CHOOSE x \in S : \A y \in S : MoveKey(x) <= MoveKey(y)
       IN  <<m>> \o InOrder(S \ {m})

\* The legal moves of the pieces on squares s .. 63, by source square.
RECURSIVE MovesFromSquare(_, _)
MovesFromSquare(b, s) ==
  IF s > 63 THEN <<>>
  ELSE IF b.pieces[s] # "None" /\ player_lossy(b.pieces[s]) = b.turn
  THEN InOrder(LegalMovesFrom(b, s)) \o MovesFromSquare(b, s + 1)
  ELSE MovesFromSquare(b, s + 1)

\* Board::generate_moves: the MoveList of all legal moves of the side to move.
generate_moves(b) == MovesFromSquare(b, 0)

\* MoveList::is_empty of generate_moves: no piece of the side to move has a
\* legal move.
NoLegalMoves(b) ==
  \A s \in Squares :
    (b.pieces[s] # "None" /\ player_lossy(b.pieces[s]) = b.turn)
      => \A t \in PseudoDests(b, s) : \A m \in MovesTo(b, s, t) : ~LeavesKingSafe(b, m)

\* Board::checkmate: in check and no legal move.
checkmate(b) == in_check(b) /\ NoLegalMoves(b)

\* Board::stalemate: not in check and no legal move.
stalemate(b) == ~in_check(b) /\ NoLegalMoves(b)

\* Display for SQ ("a1" .. "h8") and for BitMove ("e2e4", "a7a8q").
FileChar == <<"a", "b", "c", "d", "e", "f", "g", "h">>

RankChar == <<"1", "2", "3", "4", "5", "6", "7", "8">>

SqStr(sq) == FileChar[file_idx_of_sq(sq) + 1] \o RankChar[rank_idx_of_sq(sq) + 1]

MoveStr(m) == SqStr(m.src) \o SqStr(m.dest) \o m.promo

\* ------------------------------------------------------------------------
\* Positions
\* ------------------------------------------------------------------------

Setup(placed, toMove) ==
  [pieces |-> [s \in Squares |-> IF s \in DOMAIN placed THEN placed[s] ELSE "None"],
   turn   |-> toMove]

BackRank == <<"R", "N", "B", "Q", "K", "B", "N", "R">>

\* Board::start_pos.
start_pos ==
  [pieces |-> [s \in Squares |->
                 CASE rank_idx_of_sq(s) = 0 -> MakePiece("White", BackRank[file_idx_of_sq(s) + 1])
                   [] rank_idx_of_sq(s) = 1 -> "WhitePawn"
                   [] rank_idx_of_sq(s) = 6 -> "BlackPawn"
                   [] rank_idx_of_sq(s) = 7 -> MakePiece("Black", BackRank[file_idx_of_sq(s) + 1])
                   [] OTHER -> "None"],
   turn   |-> "White"]

\* Positions of games in progress, White (the human) to move.  Each arises
\* in play from start_pos: the opponent may answer with any legal move.
\* Queen ending: Qb3-b2 mates, every king move stalemates, Qb3-b4 does neither.
QueenEnding ==
  Setup((MakeSq(0, 0) :> "BlackKing") @@ (MakeSq(2, 1) :> "WhiteKing")
          @@ (MakeSq(1, 2) :> "WhiteQueen"), "White")

\* Cornered king: Ka1-b1 is the only move; Black can then mate (Qc6-h1),
\* stalemate (Qc6-c3), check (Qc6-c1) or play a quiet move.
CorneredKing ==
  Setup((MakeSq(0, 0) :> "WhiteKing") @@ (MakeSq(1, 2) :> "BlackKing")
          @@ (MakeSq(2, 5) :> "BlackQueen"), "White")

\* Pawn on the seventh rank: h7-h8 and h7xg8 each promote in four ways.
PawnOnSeventh ==
  Setup((MakeSq(7, 6) :> "WhitePawn") @@ (MakeSq(0, 0) :> "WhiteKing")
          @@ (MakeSq(6, 7) :> "BlackKnight") @@ (MakeSq(4, 3) :> "BlackKing"), "White")

\* ------------------------------------------------------------------------
\* struct App and the event loop's state
\* ------------------------------------------------------------------------

VARIABLES
  board,        \* App.board
  cursor_pos,   \* App.cursor_pos, a u8 square index
  selected_pos, \* App.selected_pos: None or Some(square)
  message,      \* App.message
  frame,        \* the texts of the last terminal.draw: the board widget's title
                \* and the status widget's paragraph (glyphs and colours left out)
  pc,           \* run_app: "draw" (before terminal.draw), "poll" (before event::poll), "done"
  result,       \* run_app's return value once pc = "done": "Ok" or "Err"
  keys,         \* number of on_key calls so far
  lastKey,      \* the key of the last on_key call
  applied,      \* the apply_move calls of the last on_key call, in order
  aiCalls,      \* the make_ai_move calls of the last on_key call
  episode,      \* the last selection: the board when it was made, whether the
                \* cursor moved since, and the key that ended it ("open" if none)
  main_pc,      \* main: the statement it is at, "exited" once it has returned
  terminal,     \* the terminal's modes: raw mode, alternate screen, mouse
                \* capture, and whether show_cursor has run
  exit_code,    \* the process's exit status, -1 while main runs
  reported      \* whether line 264 printed run_app's error

vars ==
  <<board, cursor_pos, selected_pos, message, frame, pc, result, keys, lastKey, applied,
    aiCalls, episode, main_pc, terminal, exit_code, reported>>

mainVars == <<main_pc, terminal, exit_code, reported>>

appVars == <<board, cursor_pos, selected_pos, message>>

\* Option<Square>.
None == <<>>

Some(sq) == <<sq>>

\* u8::wrapping_add and u8::wrapping_sub.
wrapping_add(a, n) == (a + n) % 256

wrapping_sub(a, n) == (a - n) % 256

\* KeyCode values on_key tells apart; "Other" is any key of the `_` arm but 'q'.
KeyCodes == {"Left", "Right", "Up", "Down", "Enter", "Esc", "Other"}

\* ------------------------------------------------------------------------
\* App::get_game_status
\* ------------------------------------------------------------------------

\* (Variant: line 151 names the side to move as the winner.)
get_game_status_WinnerIsMover(b) ==
  IF checkmate(b)
  THEN "Checkmate! " \o (IF turn(b) = "White" THEN "White" ELSE "Black") \o " wins!"
  ELSE IF stalemate(b)
  THEN "Stalemate!"
  ELSE IF in_check(b)
  THEN (IF turn(b) = "White" THEN "White" ELSE "Black") \o " is in check!"
  ELSE (IF turn(b) = "White" THEN "White" ELSE "Black") \o "'s turn"

get_game_status(b) ==
  IF checkmate(b)
  THEN "Checkmate! " \o (IF turn(b) = "White" THEN "Black" ELSE "White") \o " wins!"
  ELSE IF stalemate(b)
  THEN "Stalemate!"
  ELSE IF in_check(b)
  THEN (IF turn(b) = "White" THEN "White" ELSE "Black") \o " is in check!"
  ELSE (IF turn(b) = "White" THEN "White" ELSE "Black") \o "'s turn"

\* ------------------------------------------------------------------------
\* App::make_ai_move
\* ------------------------------------------------------------------------

\* (Variant: line 41 formats moves[0] instead of chosen_move.)
make_ai_move_ReportsFirst(b) ==
  LET moves == generate_moves(b)
  IN  IF moves # <<>>
      THEN { [board   |-> apply_move(b, moves[i + 1]),
              message |-> "AI moved: " \o MoveStr(moves[1]),
              applied |-> << [by |-> "ai", mv |-> moves[i + 1], pos |-> b] >>]
             : i \in 0 .. (Len(moves) - 1) }
      ELSE { [board |-> b, message |-> "No legal moves available", applied |-> <<>>] }

\* (Variant: make_ai_move without line 40.)
make_ai_move_SkipsApply(b) ==
  LET moves == generate_moves(b)
  IN  IF moves # <<>>
      THEN { [board   |-> b,
              message |-> "AI moved: " \o MoveStr(moves[i + 1]),
              applied |-> <<>>]
             : i \in 0 .. (Len(moves) - 1) }
      ELSE { [board |-> b, message |-> "No legal moves available", applied |-> <<>>] }

\* The outcomes of make_ai_move on board b: one per value of
\* rng.gen_range(0..moves.len()), or the single "no legal moves" outcome.
make_ai_move(b) ==
  LET moves == generate_moves(b)
  IN  IF moves # <<>>
      THEN { [board   |-> apply_move(b, moves[i + 1]),
              message |-> "AI moved: " \o MoveStr(moves[i + 1]),
              applied |-> << [by |-> "ai", mv |-> moves[i + 1], pos |-> b] >>]
             : i \in 0 .. (Len(moves) - 1) }
      ELSE { [board |-> b, message |-> "No legal moves available", applied |-> <<>>] }

\* ------------------------------------------------------------------------
\* App::on_key
\* ------------------------------------------------------------------------

\* The cursor after each directional key.
\* (Variant: Left without the test of line 50.)
CursorLeft_Unguarded(c) == wrapping_sub(c, 1)

CursorLeft(c) == IF file_idx_of_sq(c) > 0 THEN wrapping_sub(c, 1) ELSE c

CursorRight(c) == IF file_idx_of_sq(c) < 7 THEN wrapping_add(c, 1) ELSE c

\* (Variant: Up adds 1 instead of 8.)
CursorUp_AddsOne(c) == IF rank_idx_of_sq(c) < 7 THEN wrapping_add(c, 1) ELSE c

CursorUp(c) == IF rank_idx_of_sq(c) < 7 THEN wrapping_add(c, 8) ELSE c

CursorDown(c) == IF rank_idx_of_sq(c) > 0 THEN wrapping_sub(c, 8) ELSE c

NoEngineCall == applied' = <<>> /\ aiCalls' = 0

KeyLeft ==
  /\ cursor_pos' = CursorLeft(cursor_pos)
  /\ UNCHANGED <<board, selected_pos, message>>
  /\ NoEngineCall

KeyRight ==
  /\ cursor_pos' = CursorRight(cursor_pos)
  /\ UNCHANGED <<board, selected_pos, message>>
  /\ NoEngineCall

KeyUp ==
  /\ cursor_pos' = CursorUp(cursor_pos)
  /\ UNCHANGED <<board, selected_pos, message>>
  /\ NoEngineCall

KeyDown ==
  /\ cursor_pos' = CursorDown(cursor_pos)
  /\ UNCHANGED <<board, selected_pos, message>>
  /\ NoEngineCall

\* (Variant: the closure of line 73 compares the source only.)
FindMove_SourceOnly(legal_moves, selected, cursor) ==
  LET hits == { i \in 1 .. Len(legal_moves) : legal_moves[i].src = selected }
  IN  IF hits = {} THEN 0 ELSE CHOOSE i \in hits : \A j \in hits : i <= j

\* (Variant: the closure of line 73 compares the destination only.)
FindMove_DestOnly(legal_moves, selected, cursor) ==
  LET hits == { i \in 1 .. Len(legal_moves) : legal_moves[i].dest = cursor }
  IN  IF hits = {} THEN 0 ELSE CHOOSE i \in hits : \A j \in hits : i <= j

\* (Variant: the last match instead of the first.)
FindMove_LastMatch(legal_moves, selected, cursor) ==
  LET hits == { i \in 1 .. Len(legal_moves) :
                  legal_moves[i].src = selected /\ legal_moves[i].dest = cursor }
  IN  IF hits = {} THEN 0 ELSE CHOOSE i \in hits : \A j \in hits : i >= j

\* legal_moves.iter().find(..): the index of the first move from `selected`
\* to `cursor`, 0 when there is none.
FindMove(legal_moves, selected, cursor) ==
  LET hits == { i \in 1 .. Len(legal_moves) :
                  legal_moves[i].src = selected /\ legal_moves[i].dest = cursor }
  IN  IF hits = {} THEN 0 ELSE CHOOSE i \in hits : \A j \in hits : i <= j

\* (Variant: line 80 never reached.)
OpponentReplies_Never(b) == FALSE

\* (Variant: the test of line 79 inverted.)
OpponentReplies_Inverted(b) == checkmate(b) \/ stalemate(b)

\* (Variant: line 79 without `!self.board.stalemate()`.)
OpponentReplies_IgnoresStalemate(b) == ~checkmate(b)

\* The test of line 79: the opponent moves unless the game is over.
OpponentReplies(b) == ~checkmate(b) /\ ~stalemate(b)

\* (Variant: Enter with a selection, without line 83.)
EnterArmed_SilentReject ==
  /\ selected_pos # None
  /\ LET selected    == selected_pos[1]
         legal_moves == generate_moves(board)
         idx         == FindMove(legal_moves, selected, cursor_pos)
     IN  IF idx # 0
         THEN LET mv    == legal_moves[idx]
                  moved == apply_move(board, mv)
                  human == << [by |-> "human", mv |-> mv, pos |-> board] >>
              IN  IF OpponentReplies(moved)
                  THEN \E out \in make_ai_move(moved) :
                         /\ board' = out.board
                         /\ message' = out.message
                         /\ applied' = human \o out.applied
                         /\ aiCalls' = 1
                  ELSE /\ board' = moved
                       /\ message' = "Moved: " \o MoveStr(mv)
                       /\ applied' = human
                       /\ aiCalls' = 0
         ELSE /\ UNCHANGED <<board, message>>
              /\ NoEngineCall
  /\ selected_pos' = None
  /\ UNCHANGED cursor_pos

\* Enter with a selection: try the move from the selected square to the cursor.
EnterArmed ==
  /\ selected_pos # None
  /\ LET selected    == selected_pos[1]
         legal_moves == generate_moves(board)
         idx         == FindMove(legal_moves, selected, cursor_pos)
     IN  IF idx # 0
         THEN LET mv    == legal_moves[idx]
                  moved == apply_move(board, mv)
                  human == << [by |-> "human", mv |-> mv, pos |-> board] >>
              IN  IF OpponentReplies(moved)
                  THEN \E out \in make_ai_move(moved) :
                         /\ board' = out.board
                         /\ message' = out.message
                         /\ applied' = human \o out.applied
                         /\ aiCalls' = 1
                  ELSE /\ board' = moved
                       /\ message' = "Moved: " \o MoveStr(mv)
                       /\ applied' = human
                       /\ aiCalls' = 0
         ELSE /\ message' = "Invalid move!"
              /\ UNCHANGED board
              /\ NoEngineCall
  /\ selected_pos' = None
  /\ UNCHANGED cursor_pos

\* (Variant: line 88 without `piece != PlecoPrec::None`.)
OwnPieceAt_NoEmptyTest(b, sq) == player_lossy(piece_at_sq(b, sq)) = turn(b)

\* (Variant: line 88 without the comparison with board.turn().)
OwnPieceAt_AnySide(b, sq) == piece_at_sq(b, sq) # "None"

\* The test of line 88: the cursor is on a piece of the side to move.
OwnPieceAt(b, sq) ==
  LET piece == piece_at_sq(b, sq)
  IN  piece # "None" /\ player_lossy(piece) = turn(b)

\* Enter without a selection: select the piece under the cursor.
EnterIdle ==
  /\ selected_pos = None
  /\ IF OwnPieceAt(board, cursor_pos)
     THEN /\ selected_pos' = Some(cursor_pos)
          /\ message' = "Piece selected"
     ELSE UNCHANGED <<selected_pos, message>>
  /\ UNCHANGED <<board, cursor_pos>>
  /\ NoEngineCall

KeyEnter == EnterArmed \/ EnterIdle

\* (Variant: Esc without line 95.)
KeyEsc_KeepsSelection ==
  /\ message' = "Selection cleared"
  /\ UNCHANGED <<board, cursor_pos, selected_pos>>
  /\ NoEngineCall

\* (Variant: Esc without line 96.)
KeyEsc_NoMessage ==
  /\ selected_pos' = None
  /\ UNCHANGED <<board, cursor_pos, message>>
  /\ NoEngineCall

KeyEsc ==
  /\ selected_pos' = None
  /\ message' = "Selection cleared"
  /\ UNCHANGED <<board, cursor_pos>>
  /\ NoEngineCall

\* (Variant: the `_` arm clears the selection.)
KeyOther_ClearsSelection ==
  /\ selected_pos' = None
  /\ UNCHANGED <<board, cursor_pos, message>>
  /\ NoEngineCall

KeyOther ==
  /\ UNCHANGED appVars
  /\ NoEngineCall

on_key(key) ==
  \/ key = "Left" /\ KeyLeft
  \/ key = "Right" /\ KeyRight
  \/ key = "Up" /\ KeyUp
  \/ key = "Down" /\ KeyDown
  \/ key = "Enter" /\ KeyEnter
  \/ key = "Esc" /\ KeyEsc
  \/ key = "Other" /\ KeyOther

\* ------------------------------------------------------------------------
\* run_app
\* ------------------------------------------------------------------------

\* terminal.draw succeeds: the board title is the game status, the status
\* widget shows the message.
Draw ==
  /\ pc = "draw"
  /\ frame' = [title |-> get_game_status(board), status |-> message]
  /\ pc' = "poll"
  /\ UNCHANGED <<appVars, result, keys, lastKey, applied, aiCalls, episode>>
  /\ UNCHANGED mainVars

\* terminal.draw fails: `?` returns the error.
DrawErr ==
  /\ pc = "draw"
  /\ pc' = "done"
  /\ result' = "Err"
  /\ UNCHANGED <<appVars, frame, keys, lastKey, applied, aiCalls, episode>>
  /\ UNCHANGED mainVars

\* event::poll times out, or the event read is not a key: next iteration.
PollNoKey ==
  /\ pc = "poll"
  /\ pc' = "draw"
  /\ UNCHANGED <<appVars, frame, result, keys, lastKey, applied, aiCalls, episode>>
  /\ UNCHANGED mainVars

\* event::poll or event::read fails: `?` returns the error.
PollErr ==
  /\ pc = "poll"
  /\ pc' = "done"
  /\ result' = "Err"
  /\ UNCHANGED <<appVars, frame, keys, lastKey, applied, aiCalls, episode>>
  /\ UNCHANGED mainVars

\* (Variant: the test of line 235 after the call of line 238.)
ReadQuit_AfterOnKey ==
  /\ pc = "poll"
  /\ KeyOther
  /\ lastKey' = "Other"
  /\ episode' = episode
  /\ keys' = keys + 1
  /\ pc' = "done"
  /\ result' = "Ok"
  /\ UNCHANGED frame
  /\ UNCHANGED mainVars

\* The key read is 'q': break, then Ok(()).
ReadQuit ==
  /\ pc = "poll"
  /\ pc' = "done"
  /\ result' = "Ok"
  /\ UNCHANGED <<appVars, frame, keys, lastKey, applied, aiCalls, episode>>
  /\ UNCHANGED mainVars

Directional == {"Left", "Right", "Up", "Down"}

\* The selection episode as on_key(key) leaves it: opened by a selection,
\* marked when the cursor moves under it, closed by Enter or Esc.
EpisodeAfter(key) ==
  IF selected_pos = None
  THEN IF selected_pos' # None
       THEN << [board |-> board, moved |-> FALSE, closed |-> "open"] >>
       ELSE << >>
  ELSE IF key \in Directional
  THEN << [episode[1] EXCEPT !.moved = TRUE] >>
  ELSE IF key \in {"Enter", "Esc"}
  THEN << [episode[1] EXCEPT !.closed = key] >>
  ELSE episode

\* Any other key goes to app.on_key.
ReadKey ==
  /\ pc = "poll"
  /\ keys < MaxKeys
  /\ \E key \in KeyCodes :
       /\ on_key(key)
       /\ lastKey' = key
       /\ episode' = EpisodeAfter(key)
  /\ keys' = keys + 1
  /\ pc' = "draw"
  /\ UNCHANGED <<frame, result>>
  /\ UNCHANGED mainVars

\* ------------------------------------------------------------------------
\* main
\* ------------------------------------------------------------------------

\* The terminal as the shell hands it over, and as run_app needs it.
Cooked ==
  [raw_mode |-> FALSE, alternate_screen |-> FALSE, mouse_capture |-> FALSE,
   cursor_shown |-> FALSE]

SetUp ==
  [raw_mode |-> TRUE, alternate_screen |-> TRUE, mouse_capture |-> TRUE,
   cursor_shown |-> FALSE]

runVars == <<appVars, frame, result, keys, lastKey, applied, aiCalls, episode>>

\* A `?` of main returns the error: the process exits with status 1.
ReturnErr ==
  /\ main_pc' = "exited"
  /\ exit_code' = 1
  /\ UNCHANGED <<reported, pc, runVars>>

\* Line 246: enable_raw_mode()?.
EnableRawMode ==
  /\ main_pc = "enable_raw_mode"
  /\ \/ /\ terminal' = [terminal EXCEPT !.raw_mode = TRUE]
        /\ main_pc' = "enter_screen"
        /\ UNCHANGED <<exit_code, reported, pc, runVars>>
     \/ /\ UNCHANGED terminal
        /\ ReturnErr

\* Line 248: execute!(stdout, EnterAlternateScreen, EnableMouseCapture)?.
\* A failure may come after the first command took effect.
EnterScreen ==
  /\ main_pc = "enter_screen"
  /\ \/ /\ terminal' = [terminal EXCEPT !.alternate_screen = TRUE, !.mouse_capture = TRUE]
        /\ main_pc' = "new_terminal"
        /\ UNCHANGED <<exit_code, reported, pc, runVars>>
     \/ /\ \E entered \in BOOLEAN :
             terminal' = [terminal EXCEPT !.alternate_screen = entered]
        /\ ReturnErr

\* Lines 249-253: Terminal::new(backend)?, App::new(), and the call of run_app.
NewTerminal ==
  /\ main_pc = "new_terminal"
  /\ \/ /\ main_pc' = "run_app"
        /\ pc' = "draw"
        /\ UNCHANGED <<terminal, exit_code, reported, runVars>>
     \/ /\ UNCHANGED terminal
        /\ ReturnErr

\* Line 255: disable_raw_mode()?, once run_app has returned.
DisableRawMode ==
  /\ main_pc = "run_app"
  /\ pc = "done"
  /\ \/ /\ terminal' = [terminal EXCEPT !.raw_mode = FALSE]
        /\ main_pc' = "leave_screen"
        /\ UNCHANGED <<exit_code, reported, pc, runVars>>
     \/ /\ UNCHANGED terminal
        /\ ReturnErr

\* Lines 256-260: execute!(.., LeaveAlternateScreen, DisableMouseCapture)?.
\* A failure may come after the first command took effect.
LeaveScreen ==
  /\ main_pc = "leave_screen"
  /\ \/ /\ terminal' = [terminal EXCEPT !.alternate_screen = FALSE, !.mouse_capture = FALSE]
        /\ main_pc' = "show_cursor"
        /\ UNCHANGED <<exit_code, reported, pc, runVars>>
     \/ /\ \E still \in BOOLEAN :
             terminal' = [terminal EXCEPT !.alternate_screen = still]
        /\ ReturnErr

\* Line 261: terminal.show_cursor()?.
ShowCursor ==
  /\ main_pc = "show_cursor"
  /\ \/ /\ terminal' = [terminal EXCEPT !.cursor_shown = TRUE]
        /\ main_pc' = "report"
        /\ UNCHANGED <<exit_code, reported, pc, runVars>>
     \/ /\ UNCHANGED terminal
        /\ ReturnErr

\* Lines 263-267: print run_app's error if it returned one, then Ok(()).
ReportAndReturn ==
  /\ main_pc = "report"
  /\ reported' = (result = "Err")
  /\ exit_code' = 0
  /\ main_pc' = "exited"
  /\ UNCHANGED <<terminal, pc, runVars>>

\* ------------------------------------------------------------------------
\* Specification
\* ------------------------------------------------------------------------

A1 == MakeSq(0, 0)

\* App::new: the start position, cursor on a1, nothing selected, no message.
NewApp ==
  [board |-> start_pos, cursor_pos |-> A1, message |-> "", lastKey |-> "none",
   frame |-> [title |-> "", status |-> ""]]

\* A game in progress right after Escape was pressed twice with the cursor
\* on `cursor`: nothing selected, the frame drawn in between is current.
InProgress(b, cursor) ==
  [board |-> b, cursor_pos |-> cursor, message |-> "Selection cleared", lastKey |-> "Esc",
   frame |-> [title |-> get_game_status(b), status |-> "Selection cleared"]]

StartStates ==
  { NewApp,
    InProgress(QueenEnding, MakeSq(1, 2)),
    InProgress(CorneredKing, A1),
    InProgress(PawnOnSeventh, MakeSq(7, 6)) }

Init ==
  \E s \in StartStates :
    /\ board = s.board
    /\ cursor_pos = s.cursor_pos
    /\ selected_pos = None
    /\ message = s.message
    /\ frame = s.frame
    /\ lastKey = s.lastKey
    /\ pc = "draw"
    /\ result = "running"
    /\ keys = 0
    /\ applied = <<>>
    /\ aiCalls = 0
    /\ episode = <<>>
    /\ main_pc = "run_app"
    /\ terminal = SetUp
    /\ exit_code = -1
    /\ reported = FALSE

Next ==
  \/ Draw
  \/ DrawErr
  \/ PollNoKey
  \/ PollErr
  \/ ReadQuit
  \/ ReadKey

Spec == Init /\ [][Next]_vars

\* The whole program: main from its first statement, run_app on App::new().
InitMain ==
  /\ board = NewApp.board
  /\ cursor_pos = NewApp.cursor_pos
  /\ selected_pos = None
  /\ message = NewApp.message
  /\ frame = NewApp.frame
  /\ lastKey = NewApp.lastKey
  /\ pc = "start"
  /\ result = "running"
  /\ keys = 0
  /\ applied = <<>>
  /\ aiCalls = 0
  /\ episode = <<>>
  /\ main_pc = "enable_raw_mode"
  /\ terminal = Cooked
  /\ exit_code = -1
  /\ reported = FALSE

NextMain ==
  \/ EnableRawMode
  \/ EnterScreen
  \/ NewTerminal
  \/ Next
  \/ DisableRawMode
  \/ LeaveScreen
  \/ ShowCursor
  \/ ReportAndReturn

SpecMain == InitMain /\ [][NextMain]_vars

E2 == MakeSq(4, 1)

E4 == MakeSq(4, 3)

\* run_app on the start position with the cursor brought to e2 (Right four
\* times, Up) and Esc pressed.
InitOpening ==
  LET s == InProgress(start_pos, E2)
  IN  /\ board = s.board
      /\ cursor_pos = s.cursor_pos
      /\ selected_pos = None
      /\ message = s.message
      /\ frame = s.frame
      /\ lastKey = s.lastKey
      /\ pc = "draw"
      /\ result = "running"
      /\ keys = 0
      /\ applied = <<>>
      /\ aiCalls = 0
      /\ episode = <<>>
      /\ main_pc = "run_app"
      /\ terminal = SetUp
      /\ exit_code = -1
      /\ reported = FALSE

SpecOpening == InitOpening /\ [][Next]_vars

\* ------------------------------------------------------------------------
\* Properties
\* ------------------------------------------------------------------------

\* The step is on_key(key).
KeyStep(key) == keys' = keys + 1 /\ lastKey' = key

\* The pieces of a player.
PiecesOf(player) == IF player = "White" THEN WhitePieces ELSE BlackPieces

OnBoard(sq) ==
  /\ file_idx_of_sq(sq) \in 0 .. 7
  /\ rank_idx_of_sq(sq) \in 0 .. 7

\* The directional key would take the cursor off the board.
AtEdge(key, sq) ==
  \/ key = "Left" /\ file_idx_of_sq(sq) = 0
  \/ key = "Right" /\ file_idx_of_sq(sq) = 7
  \/ key = "Up" /\ rank_idx_of_sq(sq) = 7
  \/ key = "Down" /\ rank_idx_of_sq(sq) = 0

\* C1: the cursor's file index and rank index are in 0..7 initially and after
\* every step, and a directional key pressed at the edge it points to leaves
\* the cursor where it is.
C1_CursorStaysOnBoard ==
  /\ OnBoard(cursor_pos)
  /\ [][ /\ OnBoard(cursor_pos')
         /\ \A key \in Directional :
              (KeyStep(key) /\ AtEdge(key, cursor_pos)) => cursor_pos' = cursor_pos ]_vars

\* Left was the first key, pressed on a1: the cursor is still on a1.
C1_Witness == keys = 1 /\ lastKey = "Left" /\ cursor_pos = A1

\* C2: whenever a square is selected, it holds a piece of the side to move.
C2_SelectionIsOwnPiece ==
  selected_pos # None =>
    /\ selected_pos[1] \in Squares
    /\ board.pieces[selected_pos[1]] \in PiecesOf(board.turn)

\* A selection that outlived a cursor move.
C2_Witness ==
  /\ selected_pos # None
  /\ lastKey \in Directional
  /\ cursor_pos # selected_pos[1]

\* C3 as claimed: after any Enter and any Esc the selection is None.
C3_ClearedAfterEveryEnterOrEsc ==
  (keys > 0 /\ lastKey \in {"Enter", "Esc"}) => selected_pos = None

\* C3, amended: after Esc, and after Enter pressed while a square was
\* selected, the selection is None; Enter pressed with nothing selected on a
\* piece of the side to move selects the cursor's square.
C3_ClearedAfterEscOrArmedEnter ==
  [][ /\ KeyStep("Esc") => selected_pos' = None
      /\ (KeyStep("Enter") /\ selected_pos # None) => selected_pos' = None
      /\ ( /\ KeyStep("Enter")
           /\ selected_pos = None
           /\ board.pieces[cursor_pos] \in PiecesOf(board.turn) )
           => selected_pos' = Some(cursor_pos) ]_vars

\* Enter on a selection was rejected, and nothing is selected any more.
C3_Witness ==
  /\ episode # <<>>
  /\ episode[1].closed = "Enter"
  /\ message = "Invalid move!"
  /\ selected_pos = None

\* C4: Enter with nothing selected, the cursor on an empty square or on a
\* piece of the side not to move, changes nothing: no selection, and the
\* board, the side to move, the cursor and the message are as before.
C4_RejectedSelectionChangesNothing ==
  [][ ( /\ KeyStep("Enter")
        /\ selected_pos = None
        /\ board.pieces[cursor_pos] \notin PiecesOf(board.turn) )
        => /\ selected_pos' = None
           /\ board' = board
           /\ cursor_pos' = cursor_pos
           /\ message' = message ]_vars

\* Enter was pressed, nothing selected, on a piece of the side not to move.
C4_Witness ==
  /\ keys > 0
  /\ lastKey = "Enter"
  /\ selected_pos = None
  /\ episode = <<>>
  /\ board.pieces[cursor_pos] \in PiecesOf(OtherPlayer(board.turn))

\* C5: when Esc ends a selection, whatever directional keys came between,
\* nothing is selected, the message is "Selection cleared", and the board
\* (position and side to move) is the one the selection was made on.
C5_SelectThenEscRestores ==
  (episode # <<>> /\ episode[1].closed = "Esc") =>
    /\ selected_pos = None
    /\ message = "Selection cleared"
    /\ board = episode[1].board

\* A selection, cursor moves, then Esc.
C5_Witness ==
  /\ episode # <<>>
  /\ episode[1].closed = "Esc"
  /\ episode[1].moved
  /\ lastKey = "Esc"

\* The legal-move set of the side to move.
LegalMoveSet(b) ==
  UNION { LegalMovesFrom(b, s) :
            s \in { x \in Squares : b.pieces[x] \in PiecesOf(b.turn) } }

\* The step is an on_key call that applied a human move.
HumanMoveStep == keys' = keys + 1 /\ applied' # <<>>

\* The position the human move of the step leads to.
AfterHumanMove == apply_move(board, applied'[1].mv)

GameOver(b) == checkmate(b) \/ stalemate(b)

\* C6: when Enter applies a human move that gives neither checkmate nor
\* stalemate, two plies are applied in that on_key call (the human's, then
\* one of the opponent's) and the side to move is the one before the call;
\* were the opponent without a legal move, one ply would be applied.
C6_TurnReturnsToMover ==
  [][ (HumanMoveStep /\ ~GameOver(AfterHumanMove)) =>
        IF NoLegalMoves(AfterHumanMove)
        THEN /\ Len(applied') = 1
             /\ board' = AfterHumanMove
        ELSE /\ Len(applied') = 2
             /\ applied'[1].by = "human"
             /\ applied'[2].by = "ai"
             /\ board' = apply_move(AfterHumanMove, applied'[2].mv)
             /\ turn(board') = turn(board) ]_vars

\* Enter applied a human move and an opponent move; White is to move again.
C6_Witness ==
  /\ lastKey = "Enter"
  /\ Len(applied) = 2
  /\ turn(board) = "White"
  /\ ~GameOver(board)

\* C7: Enter on a selection, with no legal move from the selected square to
\* the cursor, sets the message "Invalid move!", clears the selection and
\* leaves the board, the side to move and the cursor as they were; no move
\* is applied and the opponent is not asked to move.
C7_InvalidMoveRejected ==
  [][ ( /\ KeyStep("Enter")
        /\ selected_pos # None
        /\ ~ \E m \in LegalMoveSet(board) :
               m.src = selected_pos[1] /\ m.dest = cursor_pos )
        => /\ message' = "Invalid move!"
           /\ selected_pos' = None
           /\ board' = board
           /\ cursor_pos' = cursor_pos
           /\ applied' = <<>>
           /\ aiCalls' = 0 ]_vars

\* Enter on a selection was answered with "Invalid move!".
C7_Witness ==
  /\ lastKey = "Enter"
  /\ message = "Invalid move!"
  /\ episode # <<>>
  /\ episode[1].closed = "Enter"
  /\ board = episode[1].board

\* C8: the board changes only by the moves an on_key call applies, one after
\* the other; each is a legal move of the position it is applied to; a human
\* move goes from the selected square to the cursor.
C8_OnlyLegalMovesApplied ==
  [][ IF keys' = keys + 1 /\ applied' # <<>>
      THEN /\ applied'[1].pos = board
           /\ \A i \in 1 .. Len(applied') :
                /\ applied'[i].mv \in LegalMoveSet(applied'[i].pos)
                /\ i > 1 => applied'[i].pos = apply_move(applied'[i - 1].pos, applied'[i - 1].mv)
                /\ applied'[i].by = "human"
                     => /\ selected_pos = Some(applied'[i].mv.src)
                        /\ cursor_pos = applied'[i].mv.dest
           /\ board' = apply_move(applied'[Len(applied')].pos, applied'[Len(applied')].mv)
      ELSE board' = board ]_vars

\* A human move and an opponent move were applied; the opponent's gives check.
C8_Witness ==
  /\ Len(applied) = 2
  /\ applied[1].by = "human"
  /\ applied[2].by = "ai"
  /\ in_check(board)

\* C9: in the on_key call that applies a human move, make_ai_move is called
\* exactly when the position after that move is neither checkmate nor
\* stalemate; when it is, one ply is applied and the opponent does not move.
C9_OpponentMovesUnlessGameOver ==
  [][ HumanMoveStep =>
        /\ aiCalls' = 1 <=> ~GameOver(AfterHumanMove)
        /\ GameOver(AfterHumanMove) =>
             /\ aiCalls' = 0
             /\ Len(applied') = 1
             /\ board' = AfterHumanMove ]_vars

\* The human's move stalemated Black: one ply, no opponent move.
C9_Witness ==
  /\ Len(applied) = 1
  /\ aiCalls = 0
  /\ stalemate(board)
  /\ turn(board) = "Black"

\* The status the priority order of the specification gives a board.
StatusByPriority(b) ==
  LET mate  == checkmate(b)
      stale == stalemate(b)
      check == in_check(b)
  IN  CASE mate -> "Checkmate! " \o OtherPlayer(turn(b)) \o " wins!"
        [] ~mate /\ stale -> "Stalemate!"
        [] ~mate /\ ~stale /\ check -> turn(b) \o " is in check!"
        [] OTHER -> turn(b) \o "'s turn"

\* C10: get_game_status follows the priority checkmate (the side not to
\* move wins), stalemate, check, turn, on every board the program starts
\* from, moves on or reaches; the start position gives "White's turn"; a
\* draw shows that status as the board title and changes neither the
\* message nor anything else of the App.
C10_StatusByPriority ==
  /\ get_game_status(start_pos) = "White's turn"
  /\ get_game_status(board) = StatusByPriority(board)
  /\ [][ /\ HumanMoveStep =>
              /\ \A i \in 1 .. Len(applied') :
                   get_game_status(applied'[i].pos) = StatusByPriority(applied'[i].pos)
              /\ get_game_status(board') = StatusByPriority(board')
         /\ (pc = "draw" /\ pc' = "poll") =>
              /\ frame'.title = StatusByPriority(board)
              /\ frame'.status = message
              /\ UNCHANGED <<board, cursor_pos, selected_pos, message>> ]_vars

\* The frame drawn after the opponent mated White.
C10_Witness ==
  /\ pc = "poll"
  /\ frame.title = "Checkmate! Black wins!"
  /\ Len(applied) = 2

\* The terminal modes main changed are back as the shell handed them over.
TornDown ==
  /\ ~terminal.raw_mode
  /\ ~terminal.alternate_screen
  /\ ~terminal.mouse_capture

\* C11: teardown (disable raw mode, leave the alternate screen, disable
\* mouse capture, show the cursor) has run to completion whenever main has
\* exited after terminal setup began: after Quit, after an error of the
\* loop, after a failed later setup step and after a failed earlier
\* teardown step.  (Under SpecMain a failed setup or teardown step makes
\* main return at once, so this does not hold.)
C11_TeardownOnEveryExit ==
  main_pc = "exited" =>
    /\ TornDown
    /\ pc # "start" => terminal.cursor_shown

\* C12: when the renderer or the input source failed inside the loop,
\* main exits with the terminal torn down, the error reported and a
\* non-zero exit status.  (Under SpecMain main prints the error and
\* returns Ok(()), which is exit status 0.)
C12_LoopErrorExitsNonZero ==
  (main_pc = "exited" /\ result = "Err") =>
    /\ TornDown
    /\ terminal.cursor_shown
    /\ reported
    /\ exit_code # 0

\* run_app returns Ok(()) in this step.
QuitStep == result = "running" /\ result' = "Ok"

\* C13: wherever the loop waits for a key (selection or none, game over or
\* not), it can read the Quit key; reading it ends the loop with Ok(())
\* without a call of on_key and with board, cursor, selection and message
\* as they were; once the loop has ended no step of it is possible, so no
\* further key is handled.
C13_QuitEndsLoopUnchanged ==
  /\ [](pc = "done" => ~ENABLED Next)
  /\ [][ /\ pc = "poll" => ENABLED ReadQuit
         /\ QuitStep =>
              /\ pc = "poll"
              /\ pc' = "done"
              /\ UNCHANGED <<board, cursor_pos, selected_pos, message>>
              /\ UNCHANGED <<keys, lastKey, applied, aiCalls>> ]_vars

\* Quit read while a square was selected.
C13_Witness ==
  /\ pc = "done"
  /\ result = "Ok"
  /\ selected_pos # None

\* C14: a key other than Left, Right, Up, Down, Enter and Esc changes
\* neither the cursor, the selection, the message, the board nor the side
\* to move, with or without a selection.
C14_OtherKeyIgnored ==
  [][ KeyStep("Other") =>
        /\ UNCHANGED <<board, cursor_pos, selected_pos, message>>
        /\ turn(board') = turn(board) ]_vars

\* Another key was pressed while a square was selected.
C14_Witness ==
  /\ lastKey = "Other"
  /\ selected_pos # None
  /\ message = "Piece selected"

\* The square one step from sq in the direction of the key.
Neighbour(key, sq) ==
  LET file == file_idx_of_sq(sq)
      rank == rank_idx_of_sq(sq)
  IN  CASE key = "Left"  -> MakeSq(file - 1, rank)
        [] key = "Right" -> MakeSq(file + 1, rank)
        [] key = "Up"    -> MakeSq(file, rank + 1)
        [] key = "Down"  -> MakeSq(file, rank - 1)

\* C16: once the position is checkmate or stalemate no key changes the
\* board or the side to move and no move is applied; directional keys
\* still move the cursor (one square, or not at all at the edge), and
\* Enter with a selection reports "Invalid move!".
C16_GameOverIsFinal ==
  [][ (keys' = keys + 1 /\ GameOver(board)) =>
        /\ board' = board
        /\ turn(board') = turn(board)
        /\ applied' = <<>>
        /\ \A key \in Directional :
             lastKey' = key =>
               cursor_pos' = IF AtEdge(key, cursor_pos) THEN cursor_pos
                             ELSE Neighbour(key, cursor_pos)
        /\ (lastKey' = "Enter" /\ selected_pos # None) =>
             /\ message' = "Invalid move!"
             /\ selected_pos' = None ]_vars

\* Enter with the mated king selected: the move is refused.
C16_Witness ==
  /\ checkmate(board)
  /\ lastKey = "Enter"
  /\ message = "Invalid move!"
  /\ episode # <<>>
  /\ episode[1].board = board

\* C17: when make_ai_move runs on a board with legal moves, exactly one of
\* them is applied and the message the transition leaves is "AI moved: "
\* followed by that move, not the "Moved: " message of the human move; on
\* a board without legal moves its only outcome is the message "No legal
\* moves available" with the board as it was.
C17_OpponentMoveReported ==
  [][ /\ (keys' = keys + 1 /\ aiCalls' = 1) =>
            /\ Len(applied') = 2
            /\ applied'[2].by = "ai"
            /\ applied'[2].pos = AfterHumanMove
            /\ applied'[2].mv \in LegalMoveSet(AfterHumanMove)
            /\ board' = apply_move(AfterHumanMove, applied'[2].mv)
            /\ message' = "AI moved: " \o MoveStr(applied'[2].mv)
            /\ message' # "Moved: " \o MoveStr(applied'[1].mv)
      /\ (HumanMoveStep /\ GameOver(board')) =>
            make_ai_move(board') =
              { [board |-> board', message |-> "No legal moves available",
                 applied |-> <<>>] } ]_vars

\* The message after the opponent captured with its reply.
C17_Witness ==
  /\ Len(applied) = 2
  /\ applied[2].by = "ai"
  /\ message = "AI moved: " \o MoveStr(applied[2].mv)
  /\ applied[2].pos.pieces[applied[2].mv.dest] \in WhitePieces

\* The frame of a directional key: selection, message and board stay.
DirectionalFrame ==
  /\ UNCHANGED <<selected_pos, message, board>>
  /\ turn(board') = turn(board)

\* C18 as claimed: every directional key moves the cursor by exactly one
\* square in its direction.
C18_AlwaysOneSquare ==
  [][ \A key \in Directional :
        KeyStep(key) =>
          /\ cursor_pos' = Neighbour(key, cursor_pos)
          /\ DirectionalFrame ]_vars

\* C18: a directional key, with or without a selection, moves the cursor
\* by exactly one square in its direction (Left/Right change the file
\* index by 1 and keep the rank, Up/Down change the rank index by 1 and
\* keep the file) unless the cursor is on the edge the key points to,
\* where it stays; selection, message, board and side to move are
\* unchanged.
C18_OneSquareUnlessAtEdge ==
  [][ \A key \in Directional :
        KeyStep(key) =>
          /\ IF AtEdge(key, cursor_pos)
             THEN cursor_pos' = cursor_pos
             ELSE /\ cursor_pos' = Neighbour(key, cursor_pos)
                  /\ FileDist(cursor_pos', cursor_pos) + RankDist(cursor_pos', cursor_pos) = 1
                  /\ key \in {"Left", "Right"} =>
                       rank_idx_of_sq(cursor_pos') = rank_idx_of_sq(cursor_pos)
                  /\ key \in {"Up", "Down"} =>
                       file_idx_of_sq(cursor_pos') = file_idx_of_sq(cursor_pos)
          /\ DirectionalFrame ]_vars

\* Up moved the cursor one rank up from the selected square.
C18_Witness ==
  /\ lastKey = "Up"
  /\ selected_pos # None
  /\ cursor_pos = selected_pos[1] + 8
  /\ message = "Piece selected"

\* C19: when several legal moves go from the selected square to the
\* cursor, Enter applies the first of them in the order of generate_moves,
\* and it is the only human move applied; the human move is therefore the
\* same in every outcome of the step.
C19_FirstMatchApplied ==
  [][ (KeyStep("Enter") /\ selected_pos # None) =>
        LET moves == generate_moves(board)
            hits  == { i \in 1 .. Len(moves) :
                         /\ moves[i].src = selected_pos[1]
                         /\ moves[i].dest = cursor_pos }
            first == CHOOSE i \in hits : \A j \in hits : i <= j
        IN  Cardinality(hits) > 1 =>
              /\ applied' # <<>>
              /\ applied'[1] = [by |-> "human", mv |-> moves[first], pos |-> board]
              /\ \A i \in 2 .. Len(applied') : applied'[i].by = "ai"
              /\ IF Len(applied') = 1
                 THEN board' = apply_move(board, moves[first])
                 ELSE applied'[2].pos = apply_move(board, moves[first]) ]_vars

\* The pawn promoted on h8, to the first of the four choices.
C19_Witness ==
  /\ applied # <<>>
  /\ applied[1].by = "human"
  /\ applied[1].mv.promo # NoPromo
  /\ applied[1].mv = generate_moves(applied[1].pos)[
                        FindMove(generate_moves(applied[1].pos),
                                 applied[1].mv.src, applied[1].mv.dest)]

\* C20: wherever the loop draws or waits for a key, White is to move or
\* the game is over; a selected piece and a piece the human moved are
\* White unless the game is over.
C20_WhiteToMoveBetweenKeys ==
  /\ pc \in {"draw", "poll"} => (turn(board) = "White" \/ GameOver(board))
  /\ (selected_pos # None /\ board.pieces[selected_pos[1]] \notin WhitePieces) =>
       GameOver(board)
  /\ (applied # <<>> /\ applied[1].by = "human") =>
       /\ turn(applied[1].pos) = "White"
       /\ applied[1].pos.pieces[applied[1].mv.src] \in WhitePieces

\* The frame drawn after both plies shows White to move again.
C20_Witness ==
  /\ pc = "poll"
  /\ Len(applied) = 2
  /\ turn(board) = "White"
  /\ frame.title = "White's turn"
  /\ frame.status = message

\* The step is Enter with e2 selected and the cursor on e4, in the start
\* position.
OpeningEnter ==
  /\ KeyStep("Enter")
  /\ board = start_pos
  /\ selected_pos = Some(E2)
  /\ cursor_pos = E4

\* The step applied e2e4 and then a legal reply of Black: two plies from
\* the start position.
TwoPliesFromStart ==
  LET e2e4  == Move(E2, E4, NoPromo)
      after == apply_move(start_pos, e2e4)
  IN  /\ Len(applied') = 2
      /\ applied'[1] = [by |-> "human", mv |-> e2e4, pos |-> start_pos]
      /\ applied'[2].by = "ai"
      /\ applied'[2].pos = after
      /\ applied'[2].mv \in LegalMoveSet(after)
      /\ board' = apply_move(after, applied'[2].mv)
      /\ turn(board') = "White"

\* C15 as claimed: Enter on e4 with e2 selected applies e2e4 and a reply
\* and leaves the message naming the pawn move; after every human move
\* followed by the opponent's move the message names the human's move.
C15_MessageNamesHumanMove ==
  [][ /\ OpeningEnter =>
            /\ TwoPliesFromStart
            /\ message' = "Moved: e2e4"
      /\ (HumanMoveStep /\ Len(applied') = 2) =>
            message' = "Moved: " \o MoveStr(applied'[1].mv) ]_vars

\* C15: Enter on e4 with e2 selected, in the start position, applies e2e4
\* and a legal reply of Black in the same step, which leaves a position
\* two plies from the start with White to move and the message "AI
\* moved: " followed by the reply; after every human move followed by the
\* opponent's move the message names the opponent's move, and the
\* "Moved: " message of the human move is not what the step leaves.
C15_MessageNamesReply ==
  [][ /\ OpeningEnter =>
            /\ TwoPliesFromStart
            /\ message' = "AI moved: " \o MoveStr(applied'[2].mv)
      /\ (HumanMoveStep /\ Len(applied') = 2) =>
            /\ message' = "AI moved: " \o MoveStr(applied'[2].mv)
            /\ message' # "Moved: " \o MoveStr(applied'[1].mv) ]_vars

\* After e2e4 from the start position and Black's reply e7e5.
C15_Witness ==
  /\ Len(applied) = 2
  /\ applied[1].pos = start_pos
  /\ MoveStr(applied[1].mv) = "e2e4"
  /\ message = "AI moved: e7e5"
  /\ board.pieces[E4] = "WhitePawn"
  /\ board.pieces[MakeSq(4, 4)] = "BlackPawn"

====
